---- MODULE Spec2Model ----
(***************************************************************************)
(* Model of FacturaExtractor (src/src/extractor.py): the spatial-heuristic *)
(* field-extraction engine.  A token stream (ocr_results) is a sequence of *)
(* <<word, box>> pairs, box = <<x0, y0, x1, y1>>.  Texts are TLA+ strings; *)
(* regular expressions are syntax trees matched by a backtracking matcher  *)
(* that lists the match ends in the priority order of Python's re module.  *)
(***************************************************************************)
EXTENDS Integers, Sequences, FiniteSets, TLC

VARIABLES ocr_results, pc, invoice_data, zonas_verticales,
          bloques_funcionales, contextual_regions, item_src, error,
          loop, pending, returned

vars == <<ocr_results, pc, invoice_data, zonas_verticales,
          bloques_funcionales, contextual_regions, item_src, error,
          loop, pending, returned>>

(***************************************************************************)
(* Bounds of the model.                                                    *)
(***************************************************************************)
MaxLen == 3

\* the calls a caller makes on one extractor
MaxCalls == 3

(***************************************************************************)
(* Python values: None, and str / list helpers.                            *)
(***************************************************************************)
None == <<>>

Some(v) == <<v>>

Min(S) == CHOOSE x \in S : \A y \in S : x <= y

Max(S) == CHOOSE x \in S : \A y \in S : x >= y

Abs(n) == IF n < 0 THEN -n ELSE n

Ch(s, i) == SubSeq(s, i, i)

\* The characters of a text are those of Latin-1 that a string can hold:
\* U+0001 - U+00FF without the grave accent U+0060, in code point order.
Latin1 ==
  <<"", "", "", "", "", "", "", "",
    "\t", "\n", "", "\f", "\r", "", "", "",
    "", "", "", "", "", "", "", "",
    "", "", "", "", "", "", "", " ",
    "!", "\"", "#", "$", "%", "&", "'", "(",
    ")", "*", "+", ",", "-", ".", "/", "0",
    "1", "2", "3", "4", "5", "6", "7", "8",
    "9", ":", ";", "<", "=", ">", "?", "@",
    "A", "B", "C", "D", "E", "F", "G", "H",
    "I", "J", "K", "L", "M", "N", "O", "P",
    "Q", "R", "S", "T", "U", "V", "W", "X",
    "Y", "Z", "[", "\\", "]", "^", "_", "a",
    "b", "c", "d", "e", "f", "g", "h", "i",
    "j", "k", "l", "m", "n", "o", "p", "q",
    "r", "s", "t", "u", "v", "w", "x", "y",
    "z", "{", "|", "}", "~", "", "", "",
    "", "", "", "", "", "", "", "",
    "", "", "", "", "", "", "", "",
    "", "", "", "", "", "", "", "",
    "", "", "", "", "", "", " ", "¡",
    "¢", "£", "¤", "¥", "¦", "§", "¨", "©",
    "ª", "«", "¬", "­", "®", "¯", "°", "±",
    "²", "³", "´", "µ", "¶", "·", "¸", "¹",
    "º", "»", "¼", "½", "¾", "¿", "À", "Á",
    "Â", "Ã", "Ä", "Å", "Æ", "Ç", "È", "É",
    "Ê", "Ë", "Ì", "Í", "Î", "Ï", "Ð", "Ñ",
    "Ò", "Ó", "Ô", "Õ", "Ö", "×", "Ø", "Ù",
    "Ú", "Û", "Ü", "Ý", "Þ", "ß", "à", "á",
    "â", "ã", "ä", "å", "æ", "ç", "è", "é",
    "ê", "ë", "ì", "í", "î", "ï", "ð", "ñ",
    "ò", "ó", "ô", "õ", "ö", "÷", "ø", "ù",
    "ú", "û", "ü", "ý", "þ", "ÿ">>

\* ord(c)
Ord ==
  [c \in {Latin1[n] : n \in DOMAIN Latin1} |->
     LET at == CHOOSE n \in DOMAIN Latin1 : Latin1[n] = c
     IN IF at < 96 THEN at ELSE at + 1]

\* chr(n)
Chr(n) == Latin1[IF n < 96 THEN n ELSE n - 1]

\* the code points of a text
Codes(s) == [i \in 1..Len(s) |-> Ord[Ch(s, i)]]

Digits == {"0","1","2","3","4","5","6","7","8","9"}

\* the characters of str.isdigit(): the digits and the superscripts 2, 3, 1
DigitLike == Digits \cup {"²", "³", "¹"}

Range(f) == {f[i] : i \in DOMAIN f}

AsciiUpper == {Chr(n) : n \in 65..90}

AsciiLower == {Chr(n) : n \in 97..122}

\* str.isspace() and \s: U+0009 - U+000D, U+001C - U+001F, the blank,
\* U+0085 and U+00A0
Whitespace == {Chr(n) : n \in (9..13) \cup (28..32) \cup {133, 160}}

\* the whitespace that float() removes: not U+001C - U+001F
FloatSpace == Whitespace \ {Chr(n) : n \in 28..31}

\* c.upper() as code points, since it can leave Latin-1.  a-z and U+00E0 -
\* U+00FE without the division sign have their upper-case form 32 places
\* below; the sharp s becomes "SS", U+00FF becomes U+0178 and the micro sign
\* U+00B5 becomes U+039C.
UpperChar(c) ==
  IF Ord[c] \in (97..122) \cup ((224..254) \ {247}) THEN <<Ord[c] - 32>>
  ELSE IF Ord[c] = 223 THEN <<83, 83>>
  ELSE IF Ord[c] = 255 THEN <<376>>
  ELSE IF Ord[c] = 181 THEN <<924>>
  ELSE <<Ord[c]>>

\* c.lower(): A-Z and U+00C0 - U+00DE without the multiplication sign have
\* their lower-case form 32 places above
LowerChar(c) ==
  IF Ord[c] \in (65..90) \cup ((192..222) \ {215}) THEN Chr(Ord[c] + 32)
  ELSE c

\* str.upper(), as the code points of the result
RECURSIVE Upper(_)
Upper(s) ==
  IF Len(s) = 0 THEN <<>>
  ELSE IF Len(s) = 1 THEN UpperChar(s)
  ELSE LET h == Len(s) \div 2
       IN Upper(SubSeq(s, 1, h)) \o Upper(SubSeq(s, h + 1, Len(s)))

\* str.lower()
RECURSIVE Lower(_)
Lower(s) ==
  IF Len(s) = 0 THEN s
  ELSE IF Len(s) = 1 THEN LowerChar(s)
  ELSE LET h == Len(s) \div 2
       IN Lower(SubSeq(s, 1, h)) \o Lower(SubSeq(s, h + 1, Len(s)))

\* sub in s
Contains(s, sub) ==
  \E i \in 0..(Len(s) - Len(sub)) : SubSeq(s, i + 1, i + Len(sub)) = sub

\* str.isdigit()
IsDigit(s) == Len(s) > 0 /\ \A i \in 1..Len(s) : Ch(s, i) \in DigitLike

\* s without its leading and trailing characters of the set
StripOf(s, space) ==
  LET keep == {i \in 1..Len(s) : Ch(s, i) \notin space}
  IN IF keep = {} THEN "" ELSE SubSeq(s, Min(keep), Max(keep))

\* str.strip()
Strip(s) == StripOf(s, Whitespace)

\* " ".join(words)
RECURSIVE Join(_)
Join(words) ==
  IF Len(words) = 0 THEN ""
  ELSE IF Len(words) = 1 THEN words[1]
  ELSE LET h == Len(words) \div 2
       IN Join(SubSeq(words, 1, h)) \o " "
            \o Join(SubSeq(words, h + 1, Len(words)))

\* s.replace(old, new) for a one-character old
RECURSIVE Replace(_, _, _)
Replace(s, old, new) ==
  IF Len(s) = 0 THEN s
  ELSE IF Len(s) = 1 THEN (IF s = old THEN new ELSE s)
  ELSE LET h == Len(s) \div 2
       IN Replace(SubSeq(s, 1, h), old, new)
            \o Replace(SubSeq(s, h + 1, Len(s)), old, new)

(***************************************************************************)
(* Regular expressions (module re).  Ends(r, s, p) lists the positions at  *)
(* which a match of r that starts after p characters of s can end, in the  *)
(* order the backtracking matcher tries them; its head is the match Python *)
(* reports.                                                                *)
(***************************************************************************)
\* a repetition without maximum has hi = NoMax
NoMax == -1

Str(s) == [k |-> "str", s |-> s]

Cls(S) == [k |-> "cls", S |-> S]

Cat(rs) == [k |-> "cat", rs |-> rs]

Alt(rs) == [k |-> "alt", rs |-> rs]

Rep(r, lo, hi) == [k |-> "rep", r |-> r, lo |-> lo, hi |-> hi]

Opt(r) == Rep(r, 0, 1)

Star(r) == Rep(r, 0, NoMax)

Plus(r) == Rep(r, 1, NoMax)

\* the expression as re.IGNORECASE compiles it: literals and class members
\* in lower case, to be matched against the lower-case form of the text
RECURSIVE Fold(_)
Fold(r) ==
  CASE r.k = "str" -> Str(Lower(r.s))
    [] r.k = "cls" -> Cls({LowerChar(c) : c \in r.S})
    [] r.k = "rep" -> Rep(Fold(r.r), r.lo, r.hi)
    [] OTHER -> [r EXCEPT !.rs = [n \in DOMAIN r.rs |-> Fold(r.rs[n])]]

RECURSIVE Ends(_, _, _)
RECURSIVE Bind(_, _, _)
RECURSIVE EndsCat(_, _, _, _)
RECURSIVE EndsAlt(_, _, _, _)
RECURSIVE EndsRep(_, _, _, _, _)
RECURSIVE BindRep(_, _, _, _, _, _)

Ends(r, s, p) ==
  CASE r.k = "str" ->
         IF p + Len(r.s) <= Len(s) /\ SubSeq(s, p + 1, p + Len(r.s)) = r.s
         THEN <<p + Len(r.s)>> ELSE <<>>
    [] r.k = "cls" ->
         IF p < Len(s) /\ Ch(s, p + 1) \in r.S THEN <<p + 1>> ELSE <<>>
    [] r.k = "cat" -> EndsCat(r.rs, 1, s, <<p>>)
    [] r.k = "alt" -> EndsAlt(r.rs, 1, s, p)
    [] r.k = "rep" -> EndsRep(r.r, r.lo, r.hi, s, p)

\* every continuation by r of every position of ps, in order
Bind(r, s, ps) ==
  IF ps = <<>> THEN <<>>
  ELSE IF Len(ps) = 1 THEN Ends(r, s, ps[1])
  ELSE LET h == Len(ps) \div 2
       IN Bind(r, s, SubSeq(ps, 1, h)) \o Bind(r, s, SubSeq(ps, h + 1, Len(ps)))

EndsCat(rs, n, s, ps) ==
  IF n > Len(rs) \/ ps = <<>> THEN ps
  ELSE EndsCat(rs, n + 1, s, Bind(rs[n], s, ps))

EndsAlt(rs, n, s, p) ==
  IF n > Len(rs) THEN <<>>
  ELSE Ends(rs[n], s, p) \o EndsAlt(rs, n + 1, s, p)

\* greedy repetition: one more iteration is tried before stopping.  The
\* repetition of a character class takes the run of class characters after p
\* as far as hi allows and gives it back one character at a time.
EndsRep(r, lo, hi, s, p) ==
  IF r.k = "cls"
  THEN LET Back(most) ==
             IF most < lo THEN <<>>
             ELSE [n \in 1..(most - lo + 1) |-> p + most + 1 - n]
           Most(run) == IF hi = NoMax \/ run < hi THEN run ELSE hi
       IN Back(Most(Min({n \in 0..(Len(s) - p) :
                           \/ p + n = Len(s)
                           \/ Ch(s, p + n + 1) \notin r.S})))
  ELSE LET more == IF hi # 0
                   THEN BindRep(r, lo, hi, s, p, Ends(r, s, p))
                   ELSE <<>>
           stop == IF lo <= 0 THEN <<p>> ELSE <<>>
       IN more \o stop

BindRep(r, lo, hi, s, p, es) ==
  IF es = <<>> THEN <<>>
  ELSE IF Len(es) = 1
  THEN (IF es[1] > p
        THEN EndsRep(r, IF lo > 0 THEN lo - 1 ELSE 0,
                     IF hi = NoMax THEN NoMax ELSE hi - 1, s, es[1])
        ELSE <<>>)
  ELSE LET h == Len(es) \div 2
       IN BindRep(r, lo, hi, s, p, SubSeq(es, 1, h))
            \o BindRep(r, lo, hi, s, p, SubSeq(es, h + 1, Len(es)))

\* re.match(r, s) is not None
ReMatch(r, s) == Ends(r, s, 0) # <<>>

(***************************************************************************)
(* A pattern of self.patrones is a prefix followed by its only capture     *)
(* group.  MatchAt gives the span of the group in the first match that     *)
(* starts at p.                                                            *)
(***************************************************************************)
Pattern(pre, grp) == [pre |-> pre, grp |-> grp]

MatchAt(pat, s, p) ==
  LET Group(e) == Some(<<e, Head(Ends(pat.grp, s, e))>>)
      Pick(es, ok) == IF ok = {} THEN None ELSE Group(es[Min(ok)])
      Try(es) ==
        Pick(es, {n \in 1..Len(es) : Ends(pat.grp, s, es[n]) # <<>>})
  IN Try(Ends(pat.pre, s, p))

\* the first match of pat in s, or None
FirstMatch(pat, s) ==
  LET At(starts) ==
        IF starts = {} THEN None ELSE MatchAt(pat, s, Min(starts))
  IN At({p \in 0..Len(s) : MatchAt(pat, s, p) # None})

\* re.search(pat, s, flags): group(1) of the leftmost match, or None; ic is
\* re.IGNORECASE
ReSearch(pat, s, ic) ==
  LET Group(m) ==
        IF m = None THEN None ELSE Some(SubSeq(s, m[1][1] + 1, m[1][2]))
  IN Group(FirstMatch(IF ic THEN Pattern(Fold(pat.pre), Fold(pat.grp))
                      ELSE pat,
                      IF ic THEN Lower(s) ELSE s))

(***************************************************************************)
(* self.patrones and the shape expressions of the extractors.              *)
(***************************************************************************)
D == Cls(Digits)

SpC == Star(Cls(Whitespace \cup {":"}))

Sp == Star(Cls(Whitespace))

DateSep == Cls({"/", "-", "."})

FacturaWord == Alt(<<Str("FACTURA"), Str("factura"), Str("Fra"), Str("fac")>>)

NumeroWord ==
  Alt(<<Str("N°"), Str("N"), Cat(<<Str("N"), Cls({"ú", "u"}), Str("mero")>>),
        Str("No"), Str("Nº")>>)

\* (\d*[/\-\.]*\d*): a group that can match the empty string
InvoiceGroupOptional == Cat(<<Star(D), Star(DateSep), Star(D)>>)

InvoiceGroup == Cat(<<Plus(D), Star(DateSep), Star(D)>>)

\* \d{1,3}(?:\.\d{3})*,\d{2}
Currency ==
  Cat(<<Rep(D, 1, 3), Star(Cat(<<Str("."), Rep(D, 3, 3)>>)), Str(","),
        Rep(D, 2, 2)>>)

CompanyGroup ==
  Cat(<<Plus(Cls(AsciiUpper \cup Whitespace)),
        Alt(<<Cat(<<Cls(Whitespace), Str("S"), Opt(Str(".")), Str("L"),
                    Opt(Str("."))>>),
              Cat(<<Str("S"), Opt(Str(".")), Str("A"), Opt(Str("."))>>)>>)>>)

TaxIdGroup == Rep(Cls(AsciiUpper \cup Digits), 9, 9)

patrones ==
  [invoice_number |->
     <<Pattern(Cat(<<NumeroWord, Sp, Opt(Str("de")), Sp, FacturaWord, SpC>>),
               InvoiceGroup),
       Pattern(Cat(<<FacturaWord, SpC, NumeroWord, SpC>>), InvoiceGroup),
       Pattern(Cat(<<FacturaWord, SpC>>), InvoiceGroup)>>,
   date |->
     <<Pattern(Cat(<<Alt(<<Str("FECHA"), Str("fecha"), Str("Date")>>), SpC>>),
               Cat(<<Rep(D, 1, 2), DateSep, Rep(D, 1, 2), DateSep,
                     Rep(D, 2, 4)>>)),
       Pattern(Cat(<<>>),
               Cat(<<Rep(D, 1, 2), Cls({"/", "-"}), Rep(D, 1, 2),
                     Cls({"/", "-"}), Rep(D, 2, 4)>>))>>,
   client_name |->
     <<Pattern(Cat(<<Alt(<<Str("CLIENTE"), Str("cliente"), Str("Client")>>),
                     SpC>>), CompanyGroup),
       Pattern(Cat(<<Alt(<<Str("NOMBRE"), Str("nombre"), Str("Name")>>),
                     SpC>>), CompanyGroup),
       Pattern(Cat(<<Alt(<<Str("RAZON SOCIAL"), Str("razon social")>>),
                     SpC>>), CompanyGroup)>>,
   client_id |->
     <<Pattern(Cat(<<Alt(<<Cat(<<Str("N"), Opt(Str(".")), Str("I"),
                                 Opt(Str(".")), Str("F"), Opt(Str("."))>>),
                           Str("CIF"), Str("C.I.F."), Str("NIF")>>), SpC>>),
               TaxIdGroup),
       Pattern(Cat(<<Str("N"), Opt(Str(".")), Str("L"), Opt(Str(".")),
                     Str("F"), Opt(Str(".")), SpC>>), TaxIdGroup)>>,
   total |->
     <<Pattern(Cat(<<Alt(<<Str("TOTAL"), Str("Total"), Str("total")>>), SpC>>),
               Currency),
       Pattern(Cat(<<Alt(<<Str("IMPORTE"), Str("Importe"), Str("importe")>>),
                     SpC,
                     Opt(Alt(<<Str("LIQUIDO"), Str("liquido"), Str("TOTAL"),
                               Str("total")>>)), SpC>>), Currency),
       Pattern(Cat(<<Alt(<<Str("LIQUIDO"), Str("liquido")>>), SpC>>),
               Currency)>>]

palabras_clave ==
  [cabecera |-> <<"FACTURA", "FECHA", "NÚMERO", "N°", "EMISIÓN">>,
   cliente |-> <<"CLIENTE", "N.I.F", "NIF", "N.L.F", "DIRECCIÓN", "DOMICILIO">>,
   detalle |-> <<"CONCEPTO", "DESCRIPCIÓN", "DESCRIPCION", "CANTIDAD",
                 "PRECIO", "CARGOS", "ABONOS", "__DESCRIPCION">>,
   totales |-> <<"TOTAL", "SUBTOTAL", "BASE", "I.V.A", "IVA", "IMPORTE",
                 "LIQUIDO">>,
   pie |-> <<"FORMA", "PAGO", "VENCIMIENTO", "OBSERVACIONES">>]

\* insertion order of the palabras_clave dict
Areas == <<"cabecera", "cliente", "detalle", "totales", "pie">>

\* \d{1,2}/\d{1,2}
ShapeInvoiceSlash == Cat(<<Rep(D, 1, 2), Str("/"), Rep(D, 1, 2)>>)

\* \d{2,6}
ShapeInvoiceDigits == Rep(D, 2, 6)

\* \d{1,2}/\d{1,2}/\d{2,4}
ShapeDate ==
  Cat(<<Rep(D, 1, 2), Str("/"), Rep(D, 1, 2), Str("/"), Rep(D, 2, 4)>>)

\* [A-Za-z0-9]{3,8}
ShapeOpener == Rep(Cls(AsciiUpper \cup AsciiLower \cup Digits), 3, 8)

\* \d+[.,]\d{2}
ShapeNumber == Cat(<<Plus(D), Cls({".", ","}), Rep(D, 2, 2)>>)

IsCurrency(word) == ReMatch(Currency, word)

(***************************************************************************)
(* Token stream access, 0-based as in the source.                          *)
(***************************************************************************)
N(ocr) == Len(ocr)

Word(ocr, i) == ocr[i + 1][1]

Box(ocr, i) == ocr[i + 1][2]

Top(ocr, i) == ocr[i + 1][2][2]

Words(ocr) == [i \in 1..Len(ocr) |-> ocr[i][1]]

texto_completo(ocr) == Join(Words(ocr))

\* the indices of range(lo, hi)
PyRange(lo, hi) == lo..(hi - 1)

\* the first index of a loop that stops at its first hit, or -1
FirstOf(S) == IF S = {} THEN -1 ELSE Min(S)

\* the pattern list tried from its last entry to its first
RECURSIVE FirstPatternReversed(_, _, _)
FirstPatternReversed(pats, n, texto) ==
  IF n > Len(pats) THEN None
  ELSE LET m == ReSearch(pats[Len(pats) + 1 - n], texto, TRUE)
       IN IF m # None THEN Some(Strip(m[1]))
          ELSE FirstPatternReversed(pats, n + 1, texto)

\* the pattern tier: group(1).strip() of the first pattern that matches
RECURSIVE FirstPattern(_, _, _)
FirstPattern(pats, n, texto) ==
  IF n > Len(pats) THEN None
  ELSE LET m == ReSearch(pats[n], texto, TRUE)
       IN IF m # None THEN Some(Strip(m[1]))
          ELSE FirstPattern(pats, n + 1, texto)

\* invoice_data.values(), the scalar strings among them
Values(data) ==
  {data[f][1] : f \in {g \in {"invoice_number", "date", "total",
                               "client_name", "client_id"} : data[g] # None}}

(***************************************************************************)
(* _create_vertical_zones.  zone_height = max_height / 3 is a float and    *)
(* int(top / zone_height) equals (3 * top) \div max_height for the         *)
(* non-negative integer coordinates of the input contract; a max_height of *)
(* 0 makes the division raise ZeroDivisionError.                           *)
(***************************************************************************)
DefaultHeight == 1000

Entry(ocr, i) == <<i, Word(ocr, i), Box(ocr, i)>>

Entries(ocr) == [n \in 1..Len(ocr) |-> Entry(ocr, n - 1)]

max_height(ocr) ==
  IF Len(ocr) = 0 THEN DefaultHeight
  ELSE Max({ocr[n][2][4] : n \in 1..Len(ocr)})

\* the zones counted from the bottom of the page
v_zoneFromBottom(top, maxh) == 2 - (3 * top) \div maxh

v_zone(top, maxh) == (3 * top) \div maxh

\* max(height_values) without the guard for an empty list
ZonesRaisesOnEmpty(ocr) == Len(ocr) = 0 \/ max_height(ocr) = 0

ZonesRaises(ocr) == Len(ocr) > 0 /\ max_height(ocr) = 0

_create_vertical_zones(ocr) ==
  LET maxh == max_height(ocr)
      keys == {v_zone(Top(ocr, i), maxh) : i \in 0..(Len(ocr) - 1)}
  IN [z \in keys |->
        SelectSeq(Entries(ocr), LAMBDA e : v_zone(e[3][2], maxh) = z)]

(***************************************************************************)
(* _identify_functional_blocks.                                            *)
(***************************************************************************)
AnyKeyword(keywords, word_upper) ==
  \E n \in 1..Len(keywords) : Contains(word_upper, Codes(keywords[n]))

\* the last area, in dict order, one of whose keywords is in the word
AreaOfLast(word) ==
  LET hits == {a \in 1..Len(Areas) :
                 AnyKeyword(palabras_clave[Areas[a]], Upper(word))}
  IN IF hits = {} THEN "" ELSE Areas[Max(hits)]

\* the first area, in dict order, one of whose keywords is in the word
AreaOf(word) ==
  LET hits == {a \in 1..Len(Areas) :
                 AnyKeyword(palabras_clave[Areas[a]], Upper(word))}
  IN IF hits = {} THEN "" ELSE Areas[Min(hits)]

_identify_functional_blocks(ocr) ==
  LET kw == [a \in Range(Areas) |->
               SelectSeq(Entries(ocr), LAMBDA e : AreaOf(e[2]) = a)]
      min_y == Min({kw.detalle[n][3][2] : n \in 1..Len(kw.detalle)})
      max_y == Max({kw.detalle[n][3][4] : n \in 1..Len(kw.detalle)})
      inferred == SelectSeq(Entries(ocr),
                    LAMBDA e : /\ min_y <= e[3][2]
                               /\ e[3][2] <= max_y
                               /\ AreaOf(e[2]) = "")
  IN IF kw.detalle = <<>> THEN kw
     ELSE [kw EXCEPT !.detalle = kw.detalle \o inferred]

(***************************************************************************)
(* _analyze_spatial_context.                                               *)
(***************************************************************************)
line_key(box) == (box[2] + box[4]) \div 2

\* list.sort(key=x0) is stable: e goes after the elements with x0 <= its own
RECURSIVE InsertByX(_, _)
InsertByX(sorted, e) ==
  IF sorted = <<>> THEN <<e>>
  ELSE IF sorted[Len(sorted)][3][1] <= e[3][1] THEN Append(sorted, e)
  ELSE Append(InsertByX(SubSeq(sorted, 1, Len(sorted) - 1), e),
              sorted[Len(sorted)])

RECURSIVE SortByX(_)
SortByX(line) ==
  IF line = <<>> THEN <<>>
  ELSE InsertByX(SortByX(SubSeq(line, 1, Len(line) - 1)), line[Len(line)])

horizontal_lines(ocr) ==
  [key \in {line_key(ocr[n][2]) : n \in 1..Len(ocr)} |->
     SortByX(SelectSeq(Entries(ocr), LAMBDA e : line_key(e[3]) = key))]

AllKeywords == UNION {Range(palabras_clave[a]) : a \in Range(Areas)}

\* re.search(r'[:.]$', word1): $ is the end of the word or the place before
\* a newline that ends it
EndsInTerminator(word) ==
  \/ Len(word) > 0 /\ Ch(word, Len(word)) \in {":", "."}
  \/ /\ Len(word) > 1
     /\ Ch(word, Len(word)) = "\n"
     /\ Ch(word, Len(word) - 1) \in {":", "."}

\* re.search(r'[:.]$', word1) or word1.upper() in the keyword tables
IsLabel(word) ==
  EndsInTerminator(word) \/ \E w \in AllKeywords : Upper(word) = Codes(w)

PairsOfLine(line) ==
  LET js == SelectSeq([j \in 1..(Len(line) - 1) |-> j],
                      LAMBDA j : IsLabel(line[j][2]))
  IN [n \in 1..Len(js) |-> [key |-> line[js[n]], value |-> line[js[n] + 1]]]

\* the line keys in dict insertion order
RECURSIVE KeyOrder(_, _)
KeyOrder(ocr, n) ==
  IF n = 0 THEN <<>>
  ELSE LET before == KeyOrder(ocr, n - 1)
           key == line_key(ocr[n][2])
       IN IF key \in Range(before) THEN before ELSE Append(before, key)

RECURSIVE PairsOfLines(_, _, _)
PairsOfLines(lines, keys, n) ==
  IF n > Len(keys) THEN <<>>
  ELSE PairsOfLine(lines[keys[n]]) \o PairsOfLines(lines, keys, n + 1)

_analyze_spatial_context(ocr) ==
  [horizontal_lines |-> horizontal_lines(ocr),
   key_value_pairs |->
     PairsOfLines(horizontal_lines(ocr), KeyOrder(ocr, Len(ocr)), 1)]

(***************************************************************************)
(* The field extractors.  Each takes invoice_data and the token stream and *)
(* gives the updated invoice_data.                                         *)
(***************************************************************************)
\* the last such token instead of the first
AnchorIdxLast(ocr, anchors) ==
  LET hits == {i \in PyRange(0, N(ocr)) :
                 \E a \in anchors :
                   Contains(Upper(Word(ocr, i)), Codes(a))}
  IN IF hits = {} THEN -1 ELSE Max(hits)

\* first token whose upper-cased text contains one of the anchors, or -1
AnchorIdx(ocr, anchors) ==
  FirstOf({i \in PyRange(0, N(ocr)) :
             \E a \in anchors : Contains(Upper(Word(ocr, i)), Codes(a))})

_extract_invoice_number(data, ocr) ==
  LET m == FirstPattern(patrones.invoice_number, 1, texto_completo(ocr))
      factura_idx == AnchorIdx(ocr, {"FACTURA"})
      hit == FirstOf({i \in PyRange(Max({0, factura_idx - 3}),
                                    Min({factura_idx + 5, N(ocr)})) :
                        \/ ReMatch(ShapeInvoiceSlash, Word(ocr, i))
                        \/ /\ ReMatch(ShapeInvoiceDigits, Word(ocr, i))
                           /\ Word(ocr, i) \notin Values(data)})
  IN IF m # None THEN [data EXCEPT !.invoice_number = m]
     ELSE IF factura_idx = -1 \/ hit = -1 THEN data
     ELSE [data EXCEPT !.invoice_number = Some(Word(ocr, hit))]

_extract_date(data, ocr) ==
  LET m == FirstPattern(patrones.date, 1, texto_completo(ocr))
      fecha_idx == AnchorIdx(ocr, {"FECHA"})
      hit == FirstOf({i \in PyRange(Max({0, fecha_idx - 3}),
                                    Min({fecha_idx + 5, N(ocr)})) :
                        ReMatch(ShapeDate, Word(ocr, i))})
  IN IF m # None THEN [data EXCEPT !.date = m]
     ELSE IF fecha_idx = -1 \/ hit = -1 THEN data
     ELSE [data EXCEPT !.date = Some(Word(ocr, hit))]

\* the top-zone scan: the candidate i and the suffix index j it reaches
NameTrigger(word) ==
  Contains(word, "CAPITAL") \/ Contains(word, "PAN") \/ Contains(word, "SL")

\* the last token of the range that holds the suffix instead of the first
SuffixIdxLast(ocr, i) ==
  LET hits == {j \in PyRange(i, Min({i + 5, N(ocr)})) :
                 Contains(Word(ocr, j), "SL")}
  IN IF hits = {} THEN -1 ELSE Max(hits)

SuffixIdx(ocr, i) ==
  FirstOf({j \in PyRange(i, Min({i + 5, N(ocr)})) : Contains(Word(ocr, j), "SL")})

TopZoneName(ocr, zonas) ==
  LET cands == IF 0 \in DOMAIN zonas
               THEN SelectSeq(zonas[0],
                      LAMBDA e : NameTrigger(e[2]) /\ SuffixIdx(ocr, e[1]) # -1)
               ELSE <<>>
  IN IF cands = <<>> THEN None
     ELSE LET i == cands[1][1]
              j == SuffixIdx(ocr, i)
          IN Some(Join([n \in 1..(j - i + 1) |-> Word(ocr, i + n - 1)]))

_extract_client_info(data, ocr, zonas) ==
  LET id == FirstPattern(patrones.client_id, 1, texto_completo(ocr))
      d1 == IF id # None THEN [data EXCEPT !.client_id = id] ELSE data
      name == TopZoneName(ocr, zonas)
      cliente_idx == AnchorIdx(ocr, {"CLIENTE"})
      hit == FirstOf({i \in PyRange(cliente_idx + 1,
                                    Min({cliente_idx + 5, N(ocr)})) :
                        /\ Len(Word(ocr, i)) > 2
                        /\ ~IsDigit(Word(ocr, i))})
  IN IF name # None THEN [d1 EXCEPT !.client_name = name]
     ELSE IF cliente_idx = -1 \/ hit = -1 THEN d1
     ELSE [d1 EXCEPT !.client_name = Some(Word(ocr, hit))]

(***************************************************************************)
(* float(x.replace(".", "").replace(",", ".")) for a text that starts with *)
(* a digit: after the whitespace around it is removed, digits with single  *)
(* underscores between them, an optional fraction and an optional          *)
(* exponent; anything else raises ValueError.  The value is the IEEE-754   *)
(* double nearest to the decimal, ties to the even mantissa: a record      *)
(* [k, m] that stands for m * 2^k, where m is a natural number written as  *)
(* the sequence of its decimal digits, 2^52 <= m < 2^53 unless k = MinExp. *)
(* Zero is m = <<>>, infinity is k = MaxExp + 1.                           *)
(***************************************************************************)
\* digits with single underscores between them
DigitPart(t) ==
  /\ Len(t) > 0
  /\ Ch(t, 1) \in Digits
  /\ Ch(t, Len(t)) \in Digits
  /\ \A i \in 1..Len(t) : Ch(t, i) \in Digits \cup {"_"}
  /\ \A i \in 1..(Len(t) - 1) : Ch(t, i) # "_" \/ Ch(t, i + 1) # "_"

\* the text before the first character of the set, and the text after it
Before1(t, S) ==
  LET at == {i \in 1..Len(t) : Ch(t, i) \in S}
  IN IF at = {} THEN t ELSE SubSeq(t, 1, Min(at) - 1)

After1(t, S) ==
  LET at == {i \in 1..Len(t) : Ch(t, i) \in S}
  IN IF at = {} THEN "" ELSE SubSeq(t, Min(at) + 1, Len(t))

Normalize(x) == Replace(Replace(x, ".", ""), ",", ".")

FloatOK(s) ==
  LET t == StripOf(s, FloatSpace)
      mant == Before1(t, {"e", "E"})
      expo == After1(t, {"e", "E"})
      frac == After1(mant, {"."})
  IN /\ DigitPart(Before1(mant, {"."}))
     /\ frac = "" \/ DigitPart(frac)
     /\ \/ mant = t
        \/ DigitPart(expo)
        \/ Len(expo) > 1 /\ Ch(expo, 1) \in {"+", "-"}
                         /\ DigitPart(SubSeq(expo, 2, Len(expo)))

\* the digits of a text, as numbers
DigitSeq(s) ==
  LET at == SelectSeq([i \in 1..Len(s) |-> i], LAMBDA i : Ch(s, i) \in Digits)
  IN [n \in 1..Len(at) |->
        CHOOSE d \in 0..9 : Ch("0123456789", d + 1) = Ch(s, at[n])]

\* a digit sequence without its leading zeros
TrimZeros(ds) ==
  LET nz == {i \in 1..Len(ds) : ds[i] # 0}
  IN IF nz = {} THEN <<>> ELSE SubSeq(ds, Min(nz), Len(ds))

\* the number of a short digit sequence; from ExpLimit on the value does not
\* matter and is not computed
ExpLimit == 100000000

RECURSIVE DigitsValue(_, _)
DigitsValue(ds, acc) ==
  IF ds = <<>> \/ acc >= ExpLimit THEN acc
  ELSE DigitsValue(Tail(ds), 10 * acc + Head(ds))

RECURSIVE NatDigits(_)
NatDigits(n) == IF n = 0 THEN <<>> ELSE NatDigits(n \div 10) \o <<n % 10>>

\* the digits of ds * c + carry, at least Len(ds) of them; the sequence is
\* halved until it is one digit
RECURSIVE Times(_, _, _)
Times(ds, c, carry) ==
  IF ds = <<>> THEN NatDigits(carry)
  ELSE IF Len(ds) = 1
  THEN LET v == ds[1] * c + carry
       IN NatDigits(v \div 10) \o <<v % 10>>
  ELSE LET h == Len(ds) \div 2
           low == Times(SubSeq(ds, Len(ds) - h + 1, Len(ds)), c, carry)
           high == SubSeq(ds, 1, Len(ds) - h)
       IN IF Len(low) = h THEN Times(high, c, 0) \o low
          ELSE Times(high, c, DigitsValue(SubSeq(low, 1, Len(low) - h), 0))
                 \o SubSeq(low, Len(low) - h + 1, Len(low))

\* a < b for numbers written without leading zeros
Less(a, b) ==
  IF Len(a) # Len(b) THEN Len(a) < Len(b)
  ELSE LET d == {i \in 1..Len(a) : a[i] # b[i]}
       IN d # {} /\ a[Min(d)] < b[Min(d)]

Two52 == <<4, 5, 0, 3, 5, 9, 9, 6, 2, 7, 3, 7, 0, 4, 9, 6>>

Two53 == <<9, 0, 0, 7, 1, 9, 9, 2, 5, 4, 7, 4, 0, 9, 9, 2>>

\* the exponents of the smallest and of the largest double
MinExp == -1074

MaxExp == 971

\* a decimal of more than DecMax digits before the point is above the largest
\* double, one below 10^DecMin is below half the smallest
DecMax == 309

DecMin == -324

\* the integer part of ds * 10^-f
IntPart(ds, f) == IF Len(ds) <= f THEN <<>> ELSE SubSeq(ds, 1, Len(ds) - f)

\* ds * 10^-f * 2^k rounded to a mantissa: up when the fraction is above one
\* half, or is one half and the integer part is odd
RoundEven(ds, f, k) ==
  LET int == IntPart(ds, f)
      frac == IF Len(ds) <= f THEN [i \in 1..(f - Len(ds)) |-> 0] \o ds
              ELSE SubSeq(ds, Len(ds) - f + 1, Len(ds))
      first == IF f = 0 THEN 0 ELSE frac[1]
      rest == \E i \in 2..f : frac[i] # 0
      odd == int # <<>> /\ int[Len(int)] % 2 = 1
      up == first > 5 \/ (first = 5 /\ (rest \/ odd))
      m == IF up THEN Times(int, 1, 1) ELSE int
      r == IF m = Two53 THEN [k |-> k + 1, m |-> Two52] ELSE [k |-> k, m |-> m]
  IN IF r.k > MaxExp THEN [k |-> MaxExp + 1, m |-> Two52] ELSE r

\* ds * b^n, ten factors at a time
RECURSIVE Power(_, _, _)
Power(ds, b, n) ==
  IF ds = <<>> \/ n = 0 THEN ds
  ELSE IF n <= 10 THEN Times(ds, b^n, 0)
  ELSE Power(Power(ds, b, n \div 2), b, n - n \div 2)

\* the value ds * 10^-f * 2^k is kept while the binary point is moved until
\* the integer part has 53 bits or the exponent is MinExp:
\* x / 2^n = x * 5^n / 10^n. The number of places is estimated from the
\* number of decimal digits, 3.3 < log2(10) < 3.322, so that no move goes too
\* far
RECURSIVE Scale(_, _, _)
Scale(ds, f, k) ==
  LET int == IntPart(ds, f)
      d == Len(ds) - f
      bits == IF d >= 0 THEN (3322 * d) \div 1000 + 1
              ELSE -((3321 * (-d)) \div 1000)
      right == Max({1, (33 * (Len(int) - 1)) \div 10 - 53})
      left == Max({1, Min({53 - bits, k - MinExp})})
  IN IF ~Less(int, Two53)
     THEN Scale(Power(ds, 5, right), f + right, k + right)
     ELSE IF Less(int, Two52) /\ k > MinExp
     THEN Scale(Power(ds, 2, left), f, k - left)
     ELSE RoundEven(ds, f, k)

\* float(s) for a text that float() accepts
FloatValue(s) ==
  LET t == StripOf(s, FloatSpace)
      mant == Before1(t, {"e", "E"})
      expo == After1(t, {"e", "E"})
      frac == After1(mant, {"."})
      sign == IF Len(expo) > 0 /\ Ch(expo, 1) = "-" THEN -1 ELSE 1
      ds == TrimZeros(DigitSeq(mant))
      e == sign * DigitsValue(DigitSeq(expo), 0) - Len(DigitSeq(frac))
  IN IF ds = <<>> \/ Len(ds) + e <= DecMin THEN [k |-> MinExp, m |-> <<>>]
     ELSE IF Len(ds) + e > DecMax THEN [k |-> MaxExp + 1, m |-> Two52]
     ELSE IF e >= 0 THEN Scale(ds \o [i \in 1..e |-> 0], 0, 0)
     ELSE Scale(ds, -e, 0)

\* a <= b for doubles
FloatLeq(a, b) == a.k < b.k \/ (a.k = b.k /\ ~Less(b.m, a.m))

ImporteKey(x) == FloatValue(Normalize(x))

\* max(importes, key=...): the first of the elements with the largest key
MaxImporte(importes) ==
  importes[Min({n \in 1..Len(importes) :
                  \A k \in 1..Len(importes) :
                    FloatLeq(ImporteKey(importes[k]), ImporteKey(importes[n]))})]

\* the currency-shaped words of the bottom zone, in stream order
Importes(zonas) ==
  IF 2 \in DOMAIN zonas
  THEN LET cur == SelectSeq(zonas[2], LAMBDA e : IsCurrency(e[2]))
       IN [n \in 1..Len(cur) |-> cur[n][2]]
  ELSE <<>>

TotalAnchorHit(ocr) ==
  LET total_idx == AnchorIdx(ocr, {"LIQUIDO", "TOTAL"})
  IN IF total_idx = -1 THEN -1
     ELSE FirstOf({i \in PyRange(Max({0, total_idx - 3}),
                                 Min({total_idx + 8, N(ocr)})) :
                     IsCurrency(Word(ocr, i))})

\* the key function raises ValueError on an importe that float() rejects
TotalRaises(ocr, zonas) ==
  /\ FirstPattern(patrones.total, 1, texto_completo(ocr)) = None
  /\ TotalAnchorHit(ocr) = -1
  /\ \E n \in 1..Len(Importes(zonas)) : ~FloatOK(Normalize(Importes(zonas)[n]))

_extract_total(data, ocr, zonas) ==
  LET m == FirstPattern(patrones.total, 1, texto_completo(ocr))
      hit == TotalAnchorHit(ocr)
      importes == Importes(zonas)
  IN IF m # None THEN [data EXCEPT !.total = m]
     ELSE IF hit # -1 THEN [data EXCEPT !.total = Some(Word(ocr, hit))]
     ELSE IF importes # <<>>
          THEN [data EXCEPT !.total = Some(MaxImporte(importes))]
     ELSE data

(***************************************************************************)
(* _extract_line_items.  A row is [description, amount] together with the  *)
(* stream positions it was built from: src is the index of the amount      *)
(* token, opener the index of the row opener (-1 in the fallback scan).    *)
(***************************************************************************)
TableWindow == 30

\* tokens exactly 20 units apart count as one line
LineToleranceInclusive == 20 + 1

LineTolerance == 20

tabla_inicio_idx(ocr) ==
  FirstOf({i \in PyRange(0, N(ocr)) :
             \/ Contains(Word(ocr, i), "__DESCRIPCION")
             \/ Contains(Word(ocr, i), "CONCEPTO")
             \/ Contains(Word(ocr, i), "CARGOS")})

\* the table ends TableWindow tokens behind the header or with the stream
tabla_fin_idxNoMarker(ocr) ==
  Min({tabla_inicio_idx(ocr) + TableWindow, N(ocr)})

tabla_fin_idx(ocr) ==
  LET inicio == tabla_inicio_idx(ocr)
      fin == FirstOf({i \in PyRange(inicio + 1, N(ocr)) :
                        \/ Contains(Word(ocr, i), "TOTAL")
                        \/ Contains(Word(ocr, i), "BASE")
                        \/ Contains(Word(ocr, i), "I.V.A")
                        \/ Contains(Word(ocr, i), "LIQUIDO")})
  IN IF fin # -1 THEN fin ELSE Min({inicio + TableWindow, N(ocr)})

IsOpener(word) == ReMatch(ShapeOpener, word) \/ Contains(word, "Cuota")

\* the inner while loop: reads on from j for the row opened at i
RECURSIVE ReadRow(_, _, _, _, _)
ReadRow(ocr, i, fin, j, parts) ==
  IF j >= fin THEN [j |-> j, parts |-> parts, importe |-> None]
  ELSE IF IsCurrency(Word(ocr, j))
  THEN [j |-> j, parts |-> parts, importe |-> Some(Word(ocr, j))]
  ELSE IF Abs(Top(ocr, i) - Top(ocr, j)) < LineTolerance
  THEN ReadRow(ocr, i, fin, j + 1, Append(parts, Word(ocr, j)))
  ELSE IF Len(parts) > 1
  THEN [j |-> j, parts |-> parts, importe |-> None]
  ELSE ReadRow(ocr, i, fin, j + 1, parts)

\* the outer while loop
RECURSIVE TableRows(_, _, _, _)
TableRows(ocr, i, fin, items) ==
  IF i >= fin THEN items
  ELSE IF IsOpener(Word(ocr, i))
  THEN LET r == ReadRow(ocr, i, fin, i + 1, <<Word(ocr, i)>>)
       IN IF r.importe # None
          THEN TableRows(ocr, r.j + 1, fin,
                 Append(items, [description |-> Join(r.parts),
                                amount |-> r.importe[1],
                                src |-> r.j, opener |-> i]))
          ELSE TableRows(ocr, i + 1, fin, items)
  ELSE TableRows(ocr, i + 1, fin, items)

StructuredRows(ocr) ==
  IF tabla_inicio_idx(ocr) = -1 THEN <<>>
  ELSE TableRows(ocr, tabla_inicio_idx(ocr) + 1, tabla_fin_idx(ocr), <<>>)

\* the fallback scan without the TOTAL exclusion
QualifiesAnyCurrency(ocr, i) == IsCurrency(Word(ocr, i))

\* the fallback scan: a currency-shaped token not preceded by TOTAL
Qualifies(ocr, i) ==
  /\ IsCurrency(Word(ocr, i))
  /\ ~Contains(Word(ocr, Max({0, i - 1})), "TOTAL")

IsDescription(word) ==
  /\ Len(word) > 4
  /\ ~ReMatch(ShapeNumber, word)
  /\ ~Contains(word, "TOTAL")
  /\ ~Contains(word, "IVA")
  /\ ~Contains(word, "BASE")

\* range(i-1, max(0, i-10), -1): the nearest candidate, or -1
DescriptionIdx(ocr, i) ==
  LET C == {j \in (Max({0, i - 10}) + 1)..(i - 1) : IsDescription(Word(ocr, j))}
  IN IF C = {} THEN -1 ELSE Max(C)

\* range(j-1, max(0, j-5), -1) with insert(0, ...): ascending stream order
MoreWords(ocr, j) ==
  LET ks == SelectSeq([n \in 1..(j - 1 - Max({0, j - 5})) |->
                         Max({0, j - 5}) + n],
                      LAMBDA k :
                        /\ Abs(Top(ocr, k) - Top(ocr, j)) < LineTolerance
                        /\ ~ReMatch(ShapeNumber, Word(ocr, k)))
  IN [n \in 1..Len(ks) |-> Word(ocr, ks[n])]

Descripcion(ocr, i) ==
  LET j == DescriptionIdx(ocr, i)
  IN IF j = -1 THEN "Servicio"
     ELSE IF j > 0 /\ MoreWords(ocr, j) # <<>>
     THEN Join(Append(MoreWords(ocr, j), Word(ocr, j)))
     ELSE Word(ocr, j)

\* the fallback scan without the duplicate check
RECURSIVE FallbackRowsNoDedup(_, _, _)
FallbackRowsNoDedup(ocr, i, items) ==
  IF i >= N(ocr) THEN items
  ELSE IF Qualifies(ocr, i)
  THEN FallbackRowsNoDedup(ocr, i + 1,
         Append(items, [description |-> Descripcion(ocr, i),
                        amount |-> Word(ocr, i),
                        src |-> i, opener |-> -1]))
  ELSE FallbackRowsNoDedup(ocr, i + 1, items)

RECURSIVE FallbackRows(_, _, _)
FallbackRows(ocr, i, items) ==
  IF i >= N(ocr) THEN items
  ELSE IF /\ Qualifies(ocr, i)
          /\ \A n \in 1..Len(items) : items[n].amount # Word(ocr, i)
  THEN FallbackRows(ocr, i + 1,
         Append(items, [description |-> Descripcion(ocr, i),
                        amount |-> Word(ocr, i),
                        src |-> i, opener |-> -1]))
  ELSE FallbackRows(ocr, i + 1, items)

_extract_line_items(ocr) ==
  IF StructuredRows(ocr) # <<>> THEN StructuredRows(ocr)
  ELSE FallbackRows(ocr, 0, <<>>)

Item(row) == [description |-> row.description, amount |-> row.amount]

(***************************************************************************)
(* extract_info, one action per numbered step of the method.               *)
(***************************************************************************)
ScalarFields == {"invoice_number", "date", "total", "client_name", "client_id"}

BlankData ==
  [invoice_number |-> None, date |-> None, total |-> None,
   client_name |-> None, client_id |-> None, items |-> <<>>]

NoZones == [z \in {} |-> <<>>]

NoBlocks == [a \in Range(Areas) |-> <<>>]

NoRegions == [horizontal_lines |-> NoZones, key_value_pairs |-> <<>>]

NoLoop ==
  [i |-> 0, j |-> 0, fin |-> 0, parts |-> <<>>, used |-> <<>>,
   importe |-> None]

\* the caller presents the streams of a plan, one call after the other, to
\* the same extractor
InitPlans(plans) ==
  /\ \E plan \in plans :
       /\ ocr_results = Head(plan)
       /\ pending = Tail(plan)
  /\ pc = "idle"
  /\ invoice_data = BlankData
  /\ zonas_verticales = NoZones
  /\ bloques_funcionales = NoBlocks
  /\ contextual_regions = NoRegions
  /\ item_src = <<>>
  /\ error = "none"
  /\ loop = NoLoop
  /\ returned = <<>>

\* the record of the previous call is kept
BeginKeepsData ==
  /\ pc = "idle"
  /\ pc' = "zones"
  /\ UNCHANGED <<ocr_results, invoice_data, zonas_verticales,
                 bloques_funcionales, contextual_regions, item_src, error,
                 loop, pending, returned>>

Begin ==
  /\ pc = "idle"
  /\ pc' = "zones"
  /\ invoice_data' = BlankData
  /\ UNCHANGED <<ocr_results, zonas_verticales, bloques_funcionales,
                 contextual_regions, item_src, error, loop, pending,
                 returned>>

CreateVerticalZones ==
  /\ pc = "zones"
  /\ IF ZonesRaises(ocr_results)
     THEN /\ pc' = "raised"
          /\ error' = "ZeroDivisionError"
          /\ UNCHANGED zonas_verticales
     ELSE /\ pc' = "blocks"
          /\ zonas_verticales' = _create_vertical_zones(ocr_results)
          /\ UNCHANGED error
  /\ UNCHANGED <<ocr_results, invoice_data, bloques_funcionales,
                 contextual_regions, item_src, loop, pending, returned>>

IdentifyFunctionalBlocks ==
  /\ pc = "blocks"
  /\ pc' = "context"
  /\ bloques_funcionales' = _identify_functional_blocks(ocr_results)
  /\ UNCHANGED <<ocr_results, invoice_data, zonas_verticales,
                 contextual_regions, item_src, error, loop, pending,
                 returned>>

AnalyzeSpatialContext ==
  /\ pc = "context"
  /\ pc' = "invoice_number"
  /\ contextual_regions' = _analyze_spatial_context(ocr_results)
  /\ UNCHANGED <<ocr_results, invoice_data, zonas_verticales,
                 bloques_funcionales, item_src, error, loop, pending,
                 returned>>

ExtractInvoiceNumber ==
  /\ pc = "invoice_number"
  /\ pc' = "date"
  /\ invoice_data' = _extract_invoice_number(invoice_data, ocr_results)
  /\ UNCHANGED <<ocr_results, zonas_verticales, bloques_funcionales,
                 contextual_regions, item_src, error, loop, pending,
                 returned>>

ExtractDate ==
  /\ pc = "date"
  /\ pc' = "client"
  /\ invoice_data' = _extract_date(invoice_data, ocr_results)
  /\ UNCHANGED <<ocr_results, zonas_verticales, bloques_funcionales,
                 contextual_regions, item_src, error, loop, pending,
                 returned>>

ExtractClientInfo ==
  /\ pc = "client"
  /\ pc' = "total"
  /\ invoice_data' =
       _extract_client_info(invoice_data, ocr_results, zonas_verticales)
  /\ UNCHANGED <<ocr_results, zonas_verticales, bloques_funcionales,
                 contextual_regions, item_src, error, loop, pending,
                 returned>>

ExtractTotal ==
  /\ pc = "total"
  /\ IF TotalRaises(ocr_results, zonas_verticales)
     THEN /\ pc' = "raised"
          /\ error' = "ValueError"
          /\ UNCHANGED invoice_data
     ELSE /\ pc' = "items"
          /\ invoice_data' =
               _extract_total(invoice_data, ocr_results, zonas_verticales)
          /\ UNCHANGED error
  /\ UNCHANGED <<ocr_results, zonas_verticales, bloques_funcionales,
                 contextual_regions, item_src, loop, pending, returned>>

(***************************************************************************)
(* _extract_line_items, one action per loop iteration of the structured    *)
(* scan.  loop holds the locals i, j, tabla_fin_idx, descripcion_parts and *)
(* importe; loop.used lists the stream indices behind descripcion_parts.   *)
(* item_src is the list items, each row with the indices it was built of.  *)
(***************************************************************************)
\* the table is located and the outer index is set behind the header
LocateTable ==
  /\ pc = "items"
  /\ item_src' = <<>>
  /\ IF tabla_inicio_idx(ocr_results) = -1
     THEN /\ pc' = "fallback"
          /\ UNCHANGED loop
     ELSE /\ pc' = "scan"
          /\ loop' = [NoLoop EXCEPT !.i = tabla_inicio_idx(ocr_results) + 1,
                                    !.fin = tabla_fin_idx(ocr_results)]
  /\ UNCHANGED <<ocr_results, invoice_data, zonas_verticales,
                 bloques_funcionales, contextual_regions, error, pending,
                 returned>>

\* one test of the outer loop: leave the table, open a row, or step on
ScanToken ==
  /\ pc = "scan"
  /\ IF loop.i >= loop.fin
     THEN /\ pc' = "fallback"
          /\ UNCHANGED loop
     ELSE IF IsOpener(Word(ocr_results, loop.i))
     THEN /\ pc' = "read"
          /\ loop' = [loop EXCEPT !.parts = <<Word(ocr_results, loop.i)>>,
                                  !.used = <<loop.i>>,
                                  !.importe = None,
                                  !.j = loop.i + 1]
     ELSE /\ pc' = "scan"
          /\ loop' = [loop EXCEPT !.i = loop.i + 1]
  /\ UNCHANGED <<ocr_results, invoice_data, zonas_verticales,
                 bloques_funcionales, contextual_regions, item_src, error,
                 pending, returned>>

\* one test of the inner loop over the tokens behind the opener
ReadToken ==
  /\ pc = "read"
  /\ IF loop.j >= loop.fin
     THEN /\ pc' = "close"
          /\ UNCHANGED loop
     ELSE IF IsCurrency(Word(ocr_results, loop.j))
     THEN /\ pc' = "close"
          /\ loop' = [loop EXCEPT !.importe = Some(Word(ocr_results, loop.j))]
     ELSE IF Abs(Top(ocr_results, loop.i) - Top(ocr_results, loop.j))
               < LineTolerance
     THEN /\ pc' = "read"
          /\ loop' = [loop EXCEPT
                        !.parts = Append(@, Word(ocr_results, loop.j)),
                        !.used = Append(@, loop.j),
                        !.j = loop.j + 1]
     ELSE IF Len(loop.parts) > 1
     THEN /\ pc' = "close"
          /\ UNCHANGED loop
     ELSE /\ pc' = "read"
          /\ loop' = [loop EXCEPT !.j = loop.j + 1]
  /\ UNCHANGED <<ocr_results, invoice_data, zonas_verticales,
                 bloques_funcionales, contextual_regions, item_src, error,
                 pending, returned>>

\* the outer index steps by one also after an emitted row
AfterRowRescan(i, j) == i + 1

\* the outer index after a row with its amount at j was emitted
AfterRow(i, j) == j + 1

\* the outer index stays on the opener of a discarded row
AfterDiscardStuck(i, j) == i

\* the outer index after the row opened at i was discarded
AfterDiscard(i, j) == i + 1

\* the row is emitted if it has an amount, and the outer loop goes on
CloseRow ==
  /\ pc = "close"
  /\ pc' = "scan"
  /\ item_src' =
       IF loop.importe # None
       THEN Append(item_src, [description |-> Join(loop.parts),
                              amount |-> loop.importe[1],
                              src |-> loop.j,
                              opener |-> loop.i,
                              used |-> loop.used])
       ELSE item_src
  /\ loop' = [loop EXCEPT !.i = IF loop.importe # None
                                 THEN AfterRow(loop.i, loop.j)
                                 ELSE AfterDiscard(loop.i, loop.j)]
  /\ UNCHANGED <<ocr_results, invoice_data, zonas_verticales,
                 bloques_funcionales, contextual_regions, error, pending,
                 returned>>

\* the fallback scan runs after every structured scan
RunsFallbackAlways(items) == TRUE

\* whether the fallback scan runs on the rows of the structured scan
RunsFallback(items) == items = <<>>

\* the fallback scan, and the assignment of the rows to the record
FallbackScan ==
  /\ pc = "fallback"
  /\ pc' = "log"
  /\ LET rows == IF RunsFallback(item_src)
                 THEN FallbackRows(ocr_results, 0, item_src)
                 ELSE item_src
     IN /\ item_src' = rows
        /\ invoice_data' =
             [invoice_data EXCEPT
                !.items = [n \in 1..Len(rows) |-> Item(rows[n])]]
  /\ UNCHANGED <<ocr_results, zonas_verticales, bloques_funcionales,
                 contextual_regions, error, loop, pending, returned>>

Return ==
  /\ pc = "log"
  /\ pc' = "done"
  /\ returned' = Append(returned, [stream |-> ocr_results,
                                   record |-> invoice_data])
  /\ UNCHANGED <<ocr_results, invoice_data, zonas_verticales,
                 bloques_funcionales, contextual_regions, item_src, error,
                 loop, pending>>

\* the caller calls extract_info of the same extractor on its next stream
CallAgain ==
  /\ pc \in {"done", "raised"}
  /\ pending # <<>>
  /\ pc' = "idle"
  /\ ocr_results' = Head(pending)
  /\ pending' = Tail(pending)
  /\ error' = "none"
  /\ UNCHANGED <<invoice_data, zonas_verticales, bloques_funcionales,
                 contextual_regions, item_src, loop, returned>>

Next ==
  \/ Begin
  \/ CreateVerticalZones
  \/ IdentifyFunctionalBlocks
  \/ AnalyzeSpatialContext
  \/ ExtractInvoiceNumber
  \/ ExtractDate
  \/ ExtractClientInfo
  \/ ExtractTotal
  \/ LocateTable
  \/ ScanToken
  \/ ReadToken
  \/ CloseRow
  \/ FallbackScan
  \/ Return
  \/ CallAgain

(***************************************************************************)
(* Token streams.  Each vocabulary is a small set of tokens about one part *)
(* of the engine; the streams over it are all the sequences of at most     *)
(* MaxLen of its tokens.  The boxes sit in the top, middle and bottom      *)
(* third of a page of height 910, or are the degenerate box at the origin. *)
(***************************************************************************)
BTop == <<0, 0, 60, 10>>

BTop2 == <<65, 0, 100, 10>>

BLow == <<0, 40, 60, 50>>

BMid == <<0, 450, 50, 460>>

BBot == <<0, 900, 50, 910>>

BBot2 == <<55, 900, 100, 910>>

BZero == <<0, 0, 0, 0>>

StreamsOver(V) == UNION {[1..n -> V] : n \in 0..MaxLen}

VInvoice ==
  {<<"FACTURA", BTop>>, <<"N", BTop>>, <<"24/62", BTop2>>,
   <<"Fra:11", BMid>>, <<"NFra22", BBot>>}

VDate ==
  {<<"FECHA", BTop>>, <<"01/03/24", BTop2>>, <<"3.4.25", BMid>>,
   <<"1-2-2024", BBot>>, <<"Vence", BBot2>>}

VClientId ==
  {<<"NIF", BTop>>, <<"B12345678", BTop2>>, <<"N.L.F:A1234567Z", BMid>>,
   <<"CIF:X", BBot>>, <<"cif", BZero>>}

VClient ==
  {<<"CLIENTE", BLow>>, <<"ACME", BTop2>>, <<"SL", BTop>>, <<"SA", BMid>>,
   <<"PANES", BTop>>, <<"77", BBot>>}

VTotal ==
  {<<"TOTAL", BBot>>, <<"LIQUIDO:5,00", BMid>>, <<"9,00", BBot2>>,
   <<"Importe", BTop>>, <<"x", BTop>>}

VZone ==
  {<<"100,00", BBot>>, <<"267,17", BBot2>>, <<"50,00", BBot>>,
   <<"999,00", BTop>>, <<"1,23,4", BBot>>, <<"100,000", BBot2>>}

VItems ==
  {<<"TOTAL", BBot>>, <<"10,00", BMid>>, <<"20,00", BBot2>>,
   <<"LIMPIEZA", BMid>>, <<"CONCEPTO", BTop>>, <<"10,00", BZero>>}

\* rows of a table: the second row lies LineTolerance below the first
BHead == <<0, 80, 60, 90>>

BRow1 == <<0, 100, 50, 110>>

BRow2 == <<0, 120, 50, 130>>

BFoot == <<0, 300, 50, 310>>

Header == <<"CONCEPTO", BHead>>

VTable ==
  {<<"ABC", BRow1>>, <<"DEF", BRow2>>, <<"10,00", BRow1>>,
   <<"20,00", BRow2>>, <<"TOTAL", BFoot>>}

\* a page with a table of one row, and the plan that presents it twice
TablePage == <<Header, <<"ABC", BRow1>>, <<"10,00", BRow1>>>>

InitWith(streams) ==
  InitPlans({<<s>> : s \in streams} \cup {<<TablePage, TablePage>>})

\* the end-to-end example of the specification
Example ==
  <<<<"FACTURA", <<0, 0, 60, 10>>>>, <<"24/62", <<65, 0, 100, 10>>>>,
    <<"FECHA", <<0, 20, 50, 30>>>>, <<"01/03/24", <<55, 20, 100, 30>>>>,
    <<"CLIENTE", <<0, 40, 60, 50>>>>, <<"ACME", <<65, 40, 100, 50>>>>,
    <<"SL", <<105, 40, 120, 50>>>>, <<"TOTAL", <<0, 900, 50, 910>>>>,
    <<"150,00", <<55, 900, 100, 910>>>>>>

FieldStreams ==
  StreamsOver(VInvoice) \cup StreamsOver(VDate) \cup StreamsOver(VClientId)
    \cup StreamsOver(VTotal) \cup {Example}

ClientStreams == StreamsOver(VClient) \cup {Example}

\* two amounts of zone 2 that differ by one cent and are the same double
CentPage ==
  <<<<"70.368.744.177.664,01", BBot>>, <<"70.368.744.177.664,02", BBot2>>>>

ZoneStreams == StreamsOver(VZone) \cup {CentPage}

\* a currency-shaped token that contains TOTAL itself, and a description
VSelfTotal == {<<"1,00TOTAL", BMid>>, <<"LIMPIEZA", BMid>>}

ItemStreams == StreamsOver(VItems) \cup StreamsOver(VSelfTotal)

Init == InitWith(FieldStreams)

Spec == Init /\ [][Next]_vars

InitClient == InitWith(ClientStreams)

SpecClient == InitClient /\ [][Next]_vars

InitZone == InitWith(ZoneStreams)

SpecZone == InitZone /\ [][Next]_vars

InitItems == InitWith(ItemStreams)

SpecItems == InitItems /\ [][Next]_vars

\* tokens on both sides of the zone borders of a page of height 910, and a
\* token of height 0 on the bottom edge
VLayout ==
  {<<"a", <<0, 0, 10, 10>>>>, <<"b", <<0, 303, 10, 313>>>>,
   <<"c", <<0, 304, 10, 314>>>>, <<"d", <<0, 607, 10, 617>>>>,
   <<"e", <<0, 900, 10, 910>>>>, <<"f", <<0, 910, 10, 910>>>>}

LayoutStreams == StreamsOver(VLayout)

InitLayout == InitWith(LayoutStreams)

SpecLayout == InitLayout /\ [][Next]_vars

\* the streams of a caller that uses one extractor for several documents:
\* no tokens, a total, a table of one row, and a stream on which the zoner
\* raises; a plan is a sequence of at most MaxCalls of them
CallStreams ==
  {<<>>, <<<<"TOTAL", BBot>>, <<"9,00", BBot2>>>>, TablePage,
   <<<<"cif", BZero>>>>}

Plans == UNION {[1..n -> CallStreams] : n \in 1..MaxCalls}

InitCalls == InitPlans(Plans)

SpecCalls == InitCalls /\ [][Next]_vars

\* currency-shaped tokens with and without TOTAL in or before them
VEdge ==
  {<<"1,00TOTAL", BMid>>, <<"2,00", BMid>>, <<"TOTAL", BBot>>,
   <<"LIMPIEZA", BMid>>}

EdgeStreams == StreamsOver(VEdge)

InitEdge == InitWith(EdgeStreams)

SpecEdge == InitEdge /\ [][Next]_vars

\* pages without and with a table: every stream over VTable, the header
\* followed by every stream over VTable, a
\* page with two rows of the same amount, a page with a skipped token, and
\* pages whose second row lies inside, across and behind the end of a table
\* of TableWindow tokens
Filler == <<"-", BRow2>>

Fill(n) == [k \in 1..n |-> Filler]

TablePage2 ==
  <<<<"ABC", BRow1>>, <<"10,00", BRow1>>, <<"ABC", BRow1>>, <<"10,00", BRow1>>>>

TwoRows == <<Header>> \o TablePage2

\* a row that skips a token of the next line and ends at an amount of the
\* next line
SkipRow ==
  <<Header, <<"ABC", BRow1>>, <<"DEF", BRow2>>, <<"ABC", BRow1>>,
    <<"20,00", BRow2>>>>

LongPages ==
  {<<Header>> \o Fill(n) \o TablePage2 : n \in (TableWindow - 5)..(TableWindow - 3)}

TableStreams ==
  StreamsOver(VTable) \cup {<<Header>> \o s : s \in StreamsOver(VTable)}
    \cup {TwoRows, SkipRow} \cup LongPages

InitTable == InitWith(TableStreams)

SpecTable == InitTable /\ [][Next]_vars

\* _extract_line_items runs in one thread that executes one statement after
\* the other: a step of the scan that is possible is eventually taken.
\* ScanFair is WF_vars(ScanStep) with ENABLED <<ScanStep>>_vars written as
\* the state predicate it equals: each of the four steps is defined on every
\* state at its label and changes pc or an index.
ScanLabels == {"items", "scan", "read", "fallback"}

ScanStep == LocateTable \/ ScanToken \/ ReadToken \/ FallbackScan

ScanFair == []<>(pc \notin ScanLabels) \/ []<><<ScanStep>>_vars

LiveTable == SpecTable /\ WF_vars(CloseRow) /\ ScanFair

\* pages for the anchor searches: a value token before the anchor at
\* distance 1, 3 or 4, and a value token behind it next to it, on the last
\* index of the window, behind the window, or behind the window and near a
\* second anchor
Before(v) ==
  {<<>>, <<v>>, <<v>> \o Fill(2), <<v>> \o Fill(3),
   Fill(1) \o <<v>> \o Fill(2)}

Behind(anchor, v, after) ==
  {<<>>, <<v>>, Fill(after - 1) \o <<v>>, Fill(after) \o <<v>>,
   Fill(after) \o <<anchor, Filler, v>>}

Around(anchor, v1, v2, after) ==
  {pre \o <<anchor>> \o post :
     pre \in Before(v1), post \in Behind(anchor, v2, after)}

AnchorStreams ==
  Around(<<"Factura", BTop>>, <<"123", BTop2>>, <<"24/62", BMid>>, 4)
    \cup Around(<<"FECHA", BTop>>, <<"3.4.25", BTop2>>, <<"01/03/24", BMid>>, 4)
    \cup Around(<<"TOTAL", BBot>>, <<"5,00", BMid>>, <<"9,00", BBot2>>, 7)

InitAnchor == InitWith(AnchorStreams)

SpecAnchor == InitAnchor /\ [][Next]_vars

\* pages for the client name: a top-zone candidate whose suffix token lies
\* 4 or 5 tokens behind it, a first candidate without suffix followed by a
\* second with two suffix tokens, candidate and suffix outside the top zone;
\* a CLIENTE token whose first name-like token is the fourth or the fifth
\* behind it, or comes after a number and a short token, or follows a second
\* CLIENTE token; with and without a tax id
NameParts ==
  {<<>>,
   <<<<"PANES", BTop>>>> \o Fill(3) \o <<<<"SL", BMid>>>>,
   <<<<"PANES", BTop>>>> \o Fill(4) \o <<<<"SL", BMid>>>>,
   <<<<"CAPITAL", BTop>>>> \o Fill(4)
      \o <<<<"PANES", BTop>>, <<"SL", BMid>>, <<"ASL", BMid>>>>,
   <<<<"PANES", BMid>>, <<"SL", BMid>>>>}

ClienteParts ==
  {<<>>,
   <<<<"Cliente", BLow>>>> \o Fill(3) \o <<<<"ACME", BTop2>>>>,
   <<<<"Cliente", BLow>>>> \o Fill(4) \o <<<<"ACME", BTop2>>>>,
   <<<<"CLIENTE", BLow>>, <<"77", BBot>>, <<"ab", BTop>>, <<"ACME", BTop2>>>>,
   <<<<"CLIENTE", BLow>>>> \o Fill(4)
      \o <<<<"CLIENTE", BLow>>, <<"ACME", BTop2>>>>}

IdParts == {<<>>, <<<<"NIF", BTop>>, <<"B12345678", BTop2>>>>}

NameStreams ==
  {n \o c \o d : n \in NameParts, c \in ClienteParts, d \in IdParts}
    \cup {c \o n : n \in NameParts, c \in ClienteParts}

InitName == InitWith(NameStreams)

SpecName == InitName /\ [][Next]_vars

\* tokens for the functional blocks: a detail keyword, a token with keywords
\* of header and totals, and tokens without keyword on the line of the
\* detail keyword and below it
VBlock ==
  {<<"Concepto", BHead>>, <<"TotalFactura", BFoot>>, <<"9,00", BHead>>,
   <<"x", BRow1>>}

\* a page with a header token, the head of a table, a token on its line and
\* a token below it
BlockPage ==
  <<<<"TotalFactura", BFoot>>, <<"Concepto", BHead>>, <<"9,00", BHead>>,
    <<"x", BRow1>>>>

\* a page whose detail keywords lie on different lines with a token between
\* them, before the first and behind the second
SpanPage ==
  <<<<"x", BRow1>>, <<"Concepto", BHead>>, <<"x", BRow1>>,
    <<"PRECIO", BRow2>>, <<"x", BFoot>>, <<"Pago:IVA", BRow1>>>>

BlockStreams == StreamsOver(VBlock) \cup {BlockPage, SpanPage}

InitBlock == InitWith(BlockStreams)

SpecBlock == InitBlock /\ [][Next]_vars

(***************************************************************************)
(* Properties.                                                             *)
(***************************************************************************)
Returned == pc = "done"

texto == texto_completo(ocr_results)

\* the patterns of a field that match the concatenated text
Matching(field) ==
  {k \in 1..Len(patrones[field]) : ReSearch(patrones[field][k], texto, TRUE) # None}

\* the trimmed first group of the first pattern, in list order, that matches
PatternValue(field) ==
  Some(Strip(ReSearch(patrones[field][Min(Matching(field))], texto, TRUE)[1]))

PatternWins(field) ==
  Matching(field) # {} => invoice_data[field] = PatternValue(field)

\* C1: extract_info completes without raising on every token stream of the
\* input contract; in particular the bottom-zone fallback of the total
\* extractor never raises, whatever currency-shaped tokens lie in zone 2.
C1_NeverRaises == pc # "raised" /\ error = "none"

\* C2: whenever the concatenated text matches a pattern of invoice_number,
\* date, total or client_id, the returned value of the field is the trimmed
\* first group of the first pattern in list order that matches.
C2_PatternTierPrecedence ==
  Returned =>
    \A field \in {"invoice_number", "date", "total", "client_id"} :
      PatternWins(field)

\* a later pattern of the list wins although an earlier match of another
\* pattern lies further left, and the anchor tier would pick another token
C2_Witness ==
  /\ Returned
  /\ invoice_data.invoice_number = Some("22")
  /\ ReSearch(patrones.invoice_number[3], texto, TRUE) = Some("11")
  /\ Matching("invoice_number") = {1, 3}

\* C3: whenever the concatenated text matches a client_name pattern, the
\* returned client_name is that pattern's trimmed first group, whatever the
\* top-zone scan or the CLIENTE fallback would give.
C3_ClientNamePatternTier == Returned => PatternWins("client_name")

\* C4: for the end-to-end example stream, client_name = "ACME SL".
C4_ExampleClientName ==
  (Returned /\ ocr_results = Example) =>
    invoice_data.client_name = Some("ACME SL")

\* C5: for the end-to-end example stream, invoice_number = "24/62",
\* date = "01/03/24", total = "150,00" and items = [].
C5_ExampleFields ==
  (Returned /\ ocr_results = Example) =>
    /\ invoice_data.invoice_number = Some("24/62")
    /\ invoice_data.date = Some("01/03/24")
    /\ invoice_data.total = Some("150,00")
    /\ invoice_data.items = <<>>

C5_Witness ==
  /\ Returned
  /\ ocr_results = Example
  /\ invoice_data.total = Some("150,00")
  /\ IsCurrency(Word(ocr_results, 8))
  /\ Contains(Word(ocr_results, 7), "TOTAL")

\* C6: the returned record has exactly the keys invoice_number, date, total,
\* client_name, client_id and items; each scalar field is None or a
\* non-empty string taken from the token texts; every item has exactly a
\* description and an amount, both strings; there is no metadata key.
C6_RecordShape ==
  Returned =>
    /\ DOMAIN invoice_data = ScalarFields \cup {"items"}
    /\ \A field \in ScalarFields :
         \/ invoice_data[field] = None
         \/ /\ Len(invoice_data[field]) = 1
            /\ invoice_data[field][1] \in STRING
            /\ invoice_data[field][1] # ""
            /\ Contains(texto, invoice_data[field][1])
    /\ \A n \in 1..Len(invoice_data.items) :
         /\ DOMAIN invoice_data.items[n] = {"description", "amount"}
         /\ invoice_data.items[n].description \in STRING
         /\ invoice_data.items[n].amount \in STRING

C6_Witness ==
  /\ Returned
  /\ invoice_data.total # None
  /\ invoice_data.date = None
  /\ Len(invoice_data.items) > 0

\* C7: on the empty token stream extract_info raises nothing, the zone map
\* is empty, and the record has all five scalar fields None and items = [].
C7_EmptyInput ==
  ocr_results = <<>> =>
    /\ pc # "raised" /\ error = "none"
    /\ zonas_verticales = NoZones
    /\ \A field \in ScalarFields : invoice_data[field] = None
    /\ invoice_data.items = <<>>

C7_Witness == Returned /\ ocr_results = <<>> /\ max_height(ocr_results) = 1000

\* C8: _create_vertical_zones returns a zone map without raising for every
\* stream of the input contract, also when every box has bottom edge 0.
C8_ZonerNeverRaises == error # "ZeroDivisionError"

\* the zone-2 currency-shaped words and their numeric values
Zone2Importes ==
  {Word(ocr_results, i) : i \in {k \in 0..(N(ocr_results) - 1) :
     /\ v_zone(Top(ocr_results, k), max_height(ocr_results)) = 2
     /\ IsCurrency(Word(ocr_results, k))}}

ZoneFallbackCase ==
  /\ Matching("total") = {}
  /\ TotalAnchorHit(ocr_results) = -1
  /\ Zone2Importes # {}

\* the number that the text of an importe denotes once '.' is removed and
\* ',' is the decimal point: the digits ds times 10^e
DecimalOf(x) ==
  LET t == StripOf(Normalize(x), FloatSpace)
      mant == Before1(t, {"e", "E"})
      expo == After1(t, {"e", "E"})
      sign == IF Len(expo) > 0 /\ Ch(expo, 1) = "-" THEN -1 ELSE 1
  IN [ds |-> TrimZeros(DigitSeq(mant)),
      e |-> sign * DigitsValue(DigitSeq(expo), 0)
              - Len(DigitSeq(After1(mant, {"."})))]

\* a <= b for such numbers
DecimalLeq(a, b) ==
  LET e == Min({a.e, b.e})
      da == TrimZeros(a.ds \o [i \in 1..(a.e - e) |-> 0])
      db == TrimZeros(b.ds \o [i \in 1..(b.e - e) |-> 0])
  IN ~Less(db, da)

\* C9: when no total pattern matches, the anchor tier yields nothing and
\* zone 2 holds a currency-shaped token, the returned total is a zone-2
\* currency-shaped token, unmodified, and no zone-2 currency-shaped token
\* denotes a larger number.
C9_ZoneFallbackLargest ==
  (Returned /\ ZoneFallbackCase) =>
    /\ invoice_data.total # None
    /\ invoice_data.total[1] \in Zone2Importes
    /\ \A w \in Zone2Importes :
         DecimalLeq(DecimalOf(w), DecimalOf(invoice_data.total[1]))

FallbackRan == Returned /\ StructuredRows(ocr_results) = <<>>

Occurrences(word) ==
  {i \in 0..(N(ocr_results) - 1) : Word(ocr_results, i) = word}

\* C10 as stated: when the structured scan yields no row, the amounts of
\* the items are pairwise distinct and the row of a repeated currency token
\* is the row of its first occurrence in the stream.
C10_RowOfFirstOccurrence ==
  FallbackRan =>
    /\ \A n, m \in 1..Len(item_src) :
         n # m => item_src[n].amount # item_src[m].amount
    /\ \A n \in 1..Len(item_src) :
         item_src[n].src = Min(Occurrences(item_src[n].amount))

\* the token the fallback reads in front of token i: the token before it,
\* and at index 0 token i itself
ReadBefore(i) == Word(ocr_results, IF i = 0 THEN 0 ELSE i - 1)

\* the occurrences of a word in front of which no TOTAL is read
Accepted(word) ==
  {i \in Occurrences(word) : ~Contains(ReadBefore(i), "TOTAL")}

\* C10 as amended: when the structured scan yields no row, the amounts of
\* the items are pairwise distinct and the row of a repeated currency token
\* is the row of its first occurrence in front of which the fallback reads
\* no TOTAL, where the token read in front of index i is the token at
\* index max(0, i - 1): the preceding token, and at index 0 the token itself.
C10_RowOfFirstQualifying ==
  FallbackRan =>
    /\ \A n, m \in 1..Len(invoice_data.items) :
         n # m => invoice_data.items[n].amount # invoice_data.items[m].amount
    /\ \A n \in 1..Len(item_src) :
         /\ invoice_data.items[n] = Item(item_src[n])
         /\ Accepted(item_src[n].amount) # {}
         /\ item_src[n].src = Min(Accepted(item_src[n].amount))
         /\ item_src[n].description = Descripcion(ocr_results, item_src[n].src)

\* a currency token occurs twice, is accepted twice, and has one row
C10_Witness ==
  /\ FallbackRan
  /\ Len(invoice_data.items) = 1
  /\ \E i, j \in Accepted(invoice_data.items[1].amount) : i < j

(***************************************************************************)
(* Zoning.                                                                 *)
(***************************************************************************)
Tokens == 0..(N(ocr_results) - 1)

\* the zone map of this call exists
ZonesMade == pc \notin {"idle", "zones"} /\ error # "ZeroDivisionError"

\* the zones that list token i
ZonesOfToken(i) ==
  {z \in DOMAIN zonas_verticales :
     \E n \in 1..Len(zonas_verticales[z]) : zonas_verticales[z][n][1] = i}

\* C12: every token of a non-empty stream with non-negative coordinates is
\* assigned to one zone, whose index is floor(top / (max_bottom / 3)) and is
\* at least 0, and a token whose top edge is not above another token's is
\* never assigned to a lower-numbered zone.
C12_ZoneIndex ==
  ZonesMade =>
    /\ \A i \in Tokens :
         \E z \in ZonesOfToken(i) :
           /\ ZonesOfToken(i) = {z}
           /\ z >= 0
           /\ z * max_height(ocr_results) <= 3 * Top(ocr_results, i)
           /\ 3 * Top(ocr_results, i) < (z + 1) * max_height(ocr_results)
    /\ \A i, j \in Tokens :
         Top(ocr_results, i) <= Top(ocr_results, j) =>
           \A zi \in ZonesOfToken(i), zj \in ZonesOfToken(j) : zi <= zj

\* tokens in three zones, one of them on the bottom edge (zone 3)
C12_Witness ==
  /\ ZonesMade
  /\ N(ocr_results) > 0
  /\ Cardinality(DOMAIN zonas_verticales) >= 3
  /\ 3 \in DOMAIN zonas_verticales

(***************************************************************************)
(* Line items.                                                             *)
(***************************************************************************)
\* item_src holds rows of this call
ItemsOpen == pc \in {"scan", "read", "close", "fallback", "log", "done"}

\* item_src is the list that _extract_line_items returns
ItemsMade == pc \in {"log", "done"}

Rows == 1..Len(item_src)

\* C13: the rows are in stream order: the stream indices of their amount
\* tokens are strictly increasing along the list, in the structured and in
\* the fallback scan, so no token is the amount of two rows.
C13_ItemsInStreamOrder ==
  ItemsOpen =>
    /\ \A n \in Rows :
         /\ item_src[n].src \in Tokens
         /\ item_src[n].amount = Word(ocr_results, item_src[n].src)
    /\ \A n, m \in Rows : n < m => item_src[n].src < item_src[m].src

\* a table of two rows was read
C13_Witness ==
  /\ ItemsMade
  /\ Len(item_src) = 2
  /\ item_src[1].opener # -1
  /\ item_src[2].opener > item_src[1].src

\* one step of the structured scan moves an index forward
ScanProgress ==
  /\ (pc = "scan" /\ pc' = "scan") => loop'.i = loop.i + 1
  /\ (pc = "scan" /\ pc' = "read") =>
       /\ loop'.i = loop.i
       /\ loop'.j = loop.i + 1
  /\ (pc = "read" /\ pc' = "read") =>
       /\ loop'.i = loop.i
       /\ loop'.j = loop.j + 1
  /\ (pc = "read" /\ pc' = "close") =>
       /\ loop'.i = loop.i
       /\ loop'.j = loop.j
       /\ loop.i < loop.j
       /\ loop.j <= loop.fin
  /\ pc = "close" => loop'.i > loop.i

\* C14: every iteration of the outer and of the inner loop of the
\* structured scan moves its index strictly forward, the outer index reaches
\* the end of the table, and _extract_line_items eventually returns, with
\* or without a table.
C14_SegmenterReturns ==
  /\ [][ScanProgress]_vars
  /\ (pc = "scan") ~> (pc = "fallback" /\ loop.i >= loop.fin)
  /\ (pc = "items") ~> (pc = "log")

\* an opener whose row was discarded has been passed and the scan is over
C14_Witness ==
  /\ pc = "fallback"
  /\ loop.i >= loop.fin
  /\ loop.fin > tabla_inicio_idx(ocr_results) + 1
  /\ item_src = <<>>
  /\ \E i \in (tabla_inicio_idx(ocr_results) + 1)..(loop.fin - 1) :
       IsOpener(Word(ocr_results, i))

\* text s is word, or ends with a blank and word
EndsWithWord(s, word) ==
  \/ s = word
  \/ /\ Len(s) > Len(word)
     /\ SubSeq(s, Len(s) - Len(word), Len(s)) = " " \o word

\* the description candidates among the 10 tokens before token i
CandidatesBefore(i) ==
  {j \in Max({0, i - 10})..(i - 1) : IsDescription(Word(ocr_results, j))}

\* C15: a fallback row whose amount is token i takes its description from
\* the nearest description candidate among the tokens i-1 down to
\* max(0, i-10), and is "Servicio" only if none of them is a candidate; a
\* candidate at stream index 0 right before the amount is used.
C15_FallbackDescription ==
  FallbackRan =>
    \A n \in Rows :
      LET i == item_src[n].src
          C == CandidatesBefore(i)
      IN IF C = {}
         THEN item_src[n].description = "Servicio"
         ELSE /\ item_src[n].description # "Servicio"
              /\ EndsWithWord(item_src[n].description,
                              Word(ocr_results, Max(C)))

\* the rows of the structured scan
TableRowNos == {n \in Rows : item_src[n].opener # -1}

\* the table window as the specification defines it
WindowStart == tabla_inicio_idx(ocr_results)

EndMarkers ==
  {i \in (WindowStart + 1)..(N(ocr_results) - 1) :
     \/ Contains(Word(ocr_results, i), "TOTAL")
     \/ Contains(Word(ocr_results, i), "BASE")
     \/ Contains(Word(ocr_results, i), "I.V.A")
     \/ Contains(Word(ocr_results, i), "LIQUIDO")}

WindowEnd ==
  IF EndMarkers # {} THEN Min(EndMarkers)
  ELSE Min({WindowStart + 30, N(ocr_results)})

\* token k lies on the line of the opener o
OnLineOf(o, k) == Abs(Top(ocr_results, o) - Top(ocr_results, k)) < 20

\* the parts of C16 that do not depend on which tokens are accumulated
RowFrame(n) ==
  LET o == item_src[n].opener
      a == item_src[n].src
      used == item_src[n].used
  IN /\ WindowStart < o
     /\ o < a
     /\ a < WindowEnd
     /\ IsOpener(Word(ocr_results, o))
     /\ IsCurrency(Word(ocr_results, a))
     /\ \A k \in (o + 1)..(a - 1) : ~IsCurrency(Word(ocr_results, k))
     /\ used[1] = o
     /\ \A m \in 1..Len(used) : OnLineOf(o, used[m])
     /\ item_src[n].description =
          Join([m \in 1..Len(used) |-> Word(ocr_results, used[m])])

\* C16 as stated: every row of the structured scan starts at an opener
\* inside the window, its amount is the first currency-shaped token behind
\* the opener, its description tokens lie within 20 units of the opener's
\* top edge, and the description is the opener followed by all the tokens
\* between the opener and the amount, none skipped.
C16_RowContiguous ==
  ItemsOpen =>
    \A n \in TableRowNos :
      /\ RowFrame(n)
      /\ item_src[n].used =
           [m \in 1..(item_src[n].src - item_src[n].opener) |->
              item_src[n].opener + m - 1]

\* C16 amended: the description is the opener followed by all the tokens
\* between the opener and the amount that lie within 20 units of the
\* opener's top edge; the tokens farther away are skipped and all of them
\* come before the first accumulated token.
C16_RowOfNearTokens ==
  ItemsOpen =>
    \A n \in TableRowNos :
      LET o == item_src[n].opener
          a == item_src[n].src
          used == item_src[n].used
      IN /\ RowFrame(n)
         /\ Range(used) = {o} \cup {k \in (o + 1)..(a - 1) : OnLineOf(o, k)}
         /\ \A m \in 1..(Len(used) - 1) : used[m] < used[m + 1]
         /\ \A k \in (o + 1)..(a - 1) :
              ~OnLineOf(o, k) => \A m \in 2..Len(used) : k < used[m]

\* a row whose description skips the token behind the opener and goes on
\* with a later token, and whose amount lies on another line
C16_Witness ==
  /\ ItemsMade
  /\ \E n \in TableRowNos :
       /\ Len(item_src[n].used) = 2
       /\ item_src[n].used[2] > item_src[n].opener + 1
       /\ ~OnLineOf(item_src[n].opener, item_src[n].src)

\* the row opened last was discarded: loop.used lists its tokens
LastRowDiscarded ==
  pc = "scan" /\ loop.used # <<>> /\ loop.importe = None

\* C17: a row that ends without a currency-shaped token is not emitted, and
\* the scan resumes behind the tokens accumulated into it: none of them is
\* examined as the opener of a later row.
C17_ResumesBehindRow ==
  LastRowDiscarded =>
    /\ \A n \in Rows : item_src[n].opener # loop.used[1]
    /\ \A m \in 1..Len(loop.used) : loop.i > loop.used[m]

\* a row without the indices of its description tokens
Core(row) ==
  [description |-> row.description, amount |-> row.amount,
   src |-> row.src, opener |-> row.opener]

\* C18: the returned list holds rows of the fallback scan only if the
\* structured scan emitted no row, and then it is the list of the fallback
\* scan; if the structured scan emitted rows, the returned list is exactly
\* those rows, equal amounts included.
C18_FallbackTrigger ==
  ItemsMade =>
    LET S == StructuredRows(ocr_results)
    IN /\ (\E n \in Rows : item_src[n].opener = -1) => S = <<>>
       /\ S = <<>> => item_src = FallbackRows(ocr_results, 0, <<>>)
       /\ S # <<>> =>
            /\ Len(item_src) = Len(S)
            /\ \A n \in Rows : Core(item_src[n]) = S[n]

\* the structured scan emitted a row and left a currency-shaped token that
\* the fallback scan would have turned into a further row
C18_Witness ==
  /\ ItemsMade
  /\ TableRowNos # {}
  /\ \E i \in Tokens :
       /\ Qualifies(ocr_results, i)
       /\ \A n \in Rows : item_src[n].amount # Word(ocr_results, i)

\* the currency-shaped tokens that no token containing TOTAL precedes
NotAfterTotal ==
  {i \in Tokens :
     /\ IsCurrency(Word(ocr_results, i))
     /\ i > 0 => ~Contains(Word(ocr_results, i - 1), "TOTAL")}

\* C19: when the fallback scan runs, the amounts of the returned rows are
\* the texts of the currency-shaped tokens not immediately preceded by a
\* token containing TOTAL; the token at index 0 has no predecessor and
\* qualifies.
C19_FallbackCoverage ==
  FallbackRan =>
    {item_src[n].amount : n \in Rows} =
      {Word(ocr_results, i) : i \in NotAfterTotal}

\* the tokens a row is built of
TokensOfRow(n) ==
  Range(item_src[n].used) \cup {item_src[n].opener, item_src[n].src}

\* C20: the table ends at the first token behind the header that contains
\* TOTAL, BASE, I.V.A or LIQUIDO, or 30 tokens behind the header or with the
\* stream if there is none, and every token of a row of the structured scan
\* lies strictly between the header and that end.
C20_TableWindow ==
  /\ pc \in {"scan", "read", "close"} => loop.fin = WindowEnd
  /\ ItemsOpen =>
       \A n \in TableRowNos :
         \A k \in TokensOfRow(n) : WindowStart < k /\ k < WindowEnd

\* a table without end marker in a stream longer than the window: a row was
\* emitted and the amount at the end index was not reached
C20_Witness ==
  /\ ItemsMade
  /\ TableRowNos # {}
  /\ EndMarkers = {}
  /\ WindowEnd = WindowStart + 30
  /\ WindowEnd < N(ocr_results)
  /\ IsCurrency(Word(ocr_results, WindowEnd))

(***************************************************************************)
(* Calls on the same extractor.                                            *)
(***************************************************************************)
Calls == 1..Len(returned)

\* C11: two calls of extract_info on the same extractor with the same stream
\* return the same record, whatever was extracted before or between them:
\* no call leaves state that a later call observes.
C11_SameStreamSameRecord ==
  \A a, b \in Calls :
    returned[a].stream = returned[b].stream =>
      returned[a].record = returned[b].record

\* a stream without total was processed before and after a stream with a
\* total
C11_Witness ==
  /\ Len(returned) = 3
  /\ returned[1].stream = returned[3].stream
  /\ returned[1].record.total = None
  /\ returned[2].record.total # None

(***************************************************************************)
(* The anchor searches of invoice number, date and total.                  *)
(***************************************************************************)
AnchorFields == {"invoice_number", "date", "total"}

AnchorWords(field) ==
  CASE field = "invoice_number" -> {"FACTURA"}
    [] field = "date" -> {"FECHA"}
    [] field = "total" -> {"LIQUIDO", "TOTAL"}

WindowAfter(field) == IF field = "total" THEN 7 ELSE 4

HasShape(field, word) ==
  CASE field = "invoice_number" ->
         ReMatch(ShapeInvoiceSlash, word) \/ ReMatch(ShapeInvoiceDigits, word)
    [] field = "date" -> ReMatch(ShapeDate, word)
    [] field = "total" -> IsCurrency(word)

\* the tokens whose upper-cased text contains an anchor word of the field
AnchorTokens(field) ==
  {i \in Tokens :
     \E a \in AnchorWords(field) :
       Contains(Upper(Word(ocr_results, i)), Codes(a))}

\* the tokens of the window around the first anchor that have the shape
ShapeHits(field) ==
  IF AnchorTokens(field) = {} THEN {}
  ELSE LET a == Min(AnchorTokens(field))
       IN {i \in Tokens : /\ a - 3 <= i
                          /\ i <= a + WindowAfter(field)
                          /\ HasShape(field, Word(ocr_results, i))}

\* C21: for invoice number, date and total the anchor search decides the
\* field only when no pattern matched; its anchor is the first token whose
\* upper-cased text contains the anchor word, its window reaches from 3
\* tokens before the anchor to 4 (total: 7) tokens behind it, the value is
\* the first token of the window, in stream order, that has the shape of the
\* field, and without such a token the search gives no value (invoice number
\* and date stay absent, the total is left to the bottom zone).
C21_AnchorTier ==
  Returned =>
    \A field \in AnchorFields :
      /\ PatternWins(field)
      /\ Matching(field) = {} =>
           IF ShapeHits(field) # {}
           THEN invoice_data[field] =
                  Some(Word(ocr_results, Min(ShapeHits(field))))
           ELSE \/ invoice_data[field] = None
                \/ /\ field = "total"
                   /\ invoice_data.total # None
                   /\ invoice_data.total[1] \in Zone2Importes

\* a shape match three tokens before the anchor wins over one behind it
C21_Witness ==
  /\ Returned
  /\ Words(ocr_results) = <<"123", "-", "-", "Factura", "-", "-", "-", "24/62">>
  /\ Matching("invoice_number") = {}
  /\ ShapeHits("invoice_number") = {0, 7}
  /\ invoice_data.invoice_number = Some("123")

(***************************************************************************)
(* The client name.                                                        *)
(***************************************************************************)
\* the top-zone tokens that start a name
Candidates ==
  {i \in Tokens : 0 \in ZonesOfToken(i) /\ NameTrigger(Word(ocr_results, i))}

\* the tokens from i to i + 4 that hold the suffix marker
SuffixAt(i) ==
  {j \in Tokens : i <= j /\ j <= i + 4 /\ Contains(Word(ocr_results, j), "SL")}

Succeeding == {i \in Candidates : SuffixAt(i) # {}}

TextFromTo(i, j) == Join(SubSeq(Words(ocr_results), i + 1, j + 1))

ClienteTokens ==
  {i \in Tokens :
     Contains(Upper(Word(ocr_results, i)), Codes("CLIENTE"))}

\* the name-like tokens among the four behind the first CLIENTE token
Following ==
  IF ClienteTokens = {} THEN {}
  ELSE LET c == Min(ClienteTokens)
       IN {i \in Tokens : /\ c < i
                          /\ i <= c + 4
                          /\ Len(Word(ocr_results, i)) > 2
                          /\ ~IsDigit(Word(ocr_results, i))}

\* C22: the client name is the text of the tokens from the first top-zone
\* candidate that has a token containing "SL" among itself and the four
\* tokens behind it, through the first such token, joined by single spaces;
\* without such a candidate it is the first token among the four behind the
\* first CLIENTE token that is longer than 2 characters and not all digits;
\* otherwise it is absent.  The client id is the pattern value whichever of
\* the three cases holds.
C22_ClientNameTiers ==
  Returned =>
    /\ invoice_data.client_name =
         IF Succeeding # {}
         THEN LET i == Min(Succeeding)
              IN Some(TextFromTo(i, Min(SuffixAt(i))))
         ELSE IF Following # {}
              THEN Some(Word(ocr_results, Min(Following)))
              ELSE None
    /\ invoice_data.client_id =
         IF Matching("client_id") = {} THEN None ELSE PatternValue("client_id")

\* the first candidate has no suffix token within reach, the second has
\* two; a CLIENTE token with a name-like token behind it is not used, and
\* the tax id is set
C22_Witness ==
  /\ Returned
  /\ Candidates = {0, 5}
  /\ Succeeding = {5}
  /\ SuffixAt(5) = {6, 7}
  /\ Following # {}
  /\ invoice_data.client_name = Some("PANES SL")
  /\ invoice_data.client_id = Some("B12345678")

(***************************************************************************)
(* The functional blocks.                                                  *)
(***************************************************************************)
\* the block map of this call exists
BlocksMade ==
  pc \notin {"idle", "zones", "blocks"} /\ error # "ZeroDivisionError"

\* the places <<category, position>> of the block map that list token i
Places(i) ==
  {pl \in Range(Areas) \X (1..N(ocr_results)) :
     /\ pl[2] <= Len(bloques_funcionales[pl[1]])
     /\ bloques_funcionales[pl[1]][pl[2]][1] = i}

\* category number a has a keyword inside the upper-cased text of token i
HasKeyword(a, i) ==
  \E n \in 1..Len(palabras_clave[Areas[a]]) :
    Contains(Upper(Word(ocr_results, i)),
             Codes(palabras_clave[Areas[a]][n]))

KeywordAreas(i) == {a \in 1..Len(Areas) : HasKeyword(a, i)}

\* C23: a token with a keyword is listed in the first category, in the order
\* cabecera, cliente, detalle, totales, pie, that has a keyword inside its
\* upper-cased text; every token is listed at most once in the whole block
\* map, as (index, word, box); a token without keyword is listed, if at all,
\* in detalle and only when some token has a detalle keyword as its first.
C23_BlockClassification ==
  BlocksMade =>
    /\ \A a \in Range(Areas) :
         \A n \in 1..Len(bloques_funcionales[a]) :
         /\ bloques_funcionales[a][n][1] \in Tokens
         /\ bloques_funcionales[a][n] =
              Entry(ocr_results, bloques_funcionales[a][n][1])
    /\ \A i \in Tokens :
         /\ Cardinality(Places(i)) <= 1
         /\ KeywordAreas(i) # {} =>
              \E pl \in Places(i) : pl[1] = Areas[Min(KeywordAreas(i))]
         /\ KeywordAreas(i) = {} =>
              \A pl \in Places(i) :
                /\ pl[1] = "detalle"
                /\ \E k \in Tokens :
                     KeywordAreas(k) # {} /\ Min(KeywordAreas(k)) = 3

\* a token with keywords of header and totals is in the header, a token
\* without keyword on the line of the detail keyword is added to detail, and
\* a token without keyword below that line is in no category
C23_Witness ==
  /\ BlocksMade
  /\ Words(ocr_results) = <<"TotalFactura", "Concepto", "9,00", "x">>
  /\ KeywordAreas(0) = {1, 4}
  /\ bloques_funcionales.cabecera = <<Entry(ocr_results, 0)>>
  /\ bloques_funcionales.totales = <<>>
  /\ bloques_funcionales.detalle =
       <<Entry(ocr_results, 1), Entry(ocr_results, 2)>>
  /\ Places(3) = {}

====
